---- MODULE Spec2Model ----
(***************************************************************************)
(* The implementors fragment doc/implementors/core/iter/                   *)
(* trait.FromIterator.js and the page it is loaded into.                   *)
(*                                                                         *)
(* A page holds the two globals window.register_implementors (the          *)
(* Controller Reference) and window.pending_implementors (the              *)
(* PendingSlot), a set of fragment scripts of this shape, and the page     *)
(* controller.  Scripts run one at a time, each to completion; a fragment  *)
(* script is stepped statement by statement.                               *)
(***************************************************************************)
EXTENDS Naturals, Sequences, FiniteSets, TLC

VARIABLES
    register_implementors,  \* window.register_implementors: "undefined" or "function"
    pending_implementors,   \* window.pending_implementors: <<>> (absent) or <<mapping>>
    rendered,               \* the controller's record: the mappings it processed, in order
    pc,                     \* position of the running fragment script, "idle" when none runs
    cur,                    \* the fragment whose script is running, "none" when none runs
    k,                      \* number of assignments of line 2 already executed
    implementors,           \* the running script's local variable `implementors`
    loaded,                 \* the fragments whose script has been started
    runs                    \* history: one record per fragment run, in run order

vars == <<register_implementors, pending_implementors, rendered, pc, cur, k,
          implementors, loaded, runs>>

----------------------------------------------------------------------------
(* Bounds *)

\* Number of fragment scripts the page loads.
NFrag == 3

----------------------------------------------------------------------------
(* Payloads *)

\* The fragments a page may load, named by the trait they describe.  The
\* first is the fragment of the source file; the others are fragments of the
\* same generated shape for other traits.
TraitPages == <<"FromIterator", "Clone", "Default", "Debug", "PartialEq">>

Fragments == {TraitPages[i] : i \in 1..NFrag}

\* `var implementors = {};`
EmptyMapping == <<>>

\* `implementors[key] = v;` on a mapping: an absent key is added, a present
\* key is replaced.
Assign(m, key, v) ==
    [c \in (DOMAIN m) \cup {key} |-> IF c = key THEN v ELSE m[c]]

\* Line 2 of trait.FromIterator.js without its libc assignment.
ThisLiteral_NoLibc ==
    << <<"ndarray", <<"impl<A, S> FromIterator<A> for ArrayBase<S, Ix> where S: DataOwned<Elem=A>">> >>,
       <<"sprs", <<"impl<A, S> FromIterator<A> for ArrayBase<S, usize> where S: DataOwned<Elem=A>">> >> >>

\* Line 2 of trait.FromIterator.js: the three assignments, in order, each a
\* <<key, entry sequence>> pair.  The entries are opaque markup strings
\* (abbreviated here to their text).
ThisLiteral ==
    << <<"libc", <<>> >>,
       <<"ndarray", <<"impl<A, S> FromIterator<A> for ArrayBase<S, Ix> where S: DataOwned<Elem=A>">> >>,
       <<"sprs", <<"impl<A, S> FromIterator<A> for ArrayBase<S, usize> where S: DataOwned<Elem=A>">> >> >>

\* The assignments of fragment f's script.
Literal(f) ==
    CASE f = "FromIterator" -> ThisLiteral
      [] f = "Clone" ->
            << <<"ndarray", <<"impl Clone for ArrayBase">> >>,
               <<"sprs", <<"impl Clone for CsMat", "impl Clone for CsVec">> >> >>
      [] f = "Default" -> << >>
      [] f = "Debug" ->
            << <<"sprs", <<"impl Debug for CsMat">> >>,
               <<"sprs", <<"impl Debug for CsVec">> >> >>
      [] OTHER ->
            << <<"libc", <<>> >>,
               <<"sprs", <<"impl PartialEq for CsVec", "impl PartialEq for CsMat">> >> >>

----------------------------------------------------------------------------
(* The fragment script, lines 1 to 9 *)

\* Truthiness of window.register_implementors in `if (...)`.
Truthy(ref) == ref # "undefined"

\* The branch of line 4 always takes the else path.
Branch_AlwaysStash(ref) == "l7"

\* Line 4: `if (window.register_implementors) {` ... `} else {`.
Branch(ref) == IF Truthy(ref) THEN "l5" ELSE "l7"

\* After the call of line 5 control falls into line 7 (a missing else).
AfterCall_FallThrough == "l7"

\* Lines 5 to 8: after the call of line 5 the else block is skipped.
AfterCall == "l9"

\* The write of line 7 does nothing.
SlotWrite_Noop(slot, impl) == slot

\* The write of line 7 keeps a mapping that is already there.
SlotWrite_KeepFirst(slot, impl) == IF slot = <<>> THEN <<impl>> ELSE slot

\* Line 7: `window.pending_implementors = implementors;` on the old slot.
SlotWrite(slot, impl) == <<impl>>

\* Line 5 passes a fresh empty mapping.
CallArguments_Empty(impl) == <<EmptyMapping>>

\* Line 5: the argument list of `window.register_implementors(implementors)`.
CallArguments(impl) == <<impl>>

\* The controller's entry point: it processes the mapping it is given.
RegisterImplementors(rcv, args) == Append(rcv, args[1])

\* The record of the run in progress, updated.
Cur(field, v) == [runs EXCEPT ![Len(runs)][field] = v]

\* A fragment's script element starts executing.
Start(f) ==
    /\ pc = "idle"
    /\ f \notin loaded
    /\ pc' = "l1"
    /\ cur' = f
    /\ loaded' = loaded \cup {f}
    /\ runs' = Append(runs, [frag |-> f,
                             ctrlAtStart |-> Truthy(register_implementors),
                             slotAtStart |-> pending_implementors,
                             path |-> "none",
                             built |-> EmptyMapping,
                             args |-> <<>>,
                             writes |-> <<>>,
                             completion |-> "running"])
    /\ UNCHANGED <<register_implementors, pending_implementors, rendered, k,
                   implementors>>

\* Line 1: `var implementors = {};`
L1 ==
    /\ pc = "l1"
    /\ implementors' = EmptyMapping
    /\ k' = 0
    /\ pc' = "l2"
    /\ UNCHANGED <<register_implementors, pending_implementors, rendered, cur,
                   loaded, runs>>

\* Line 2: the next `implementors[key] = [...]` assignment.
L2Assign ==
    /\ pc = "l2"
    /\ k < Len(Literal(cur))
    /\ implementors' = Assign(implementors, Literal(cur)[k + 1][1],
                              Literal(cur)[k + 1][2])
    /\ k' = k + 1
    /\ UNCHANGED <<register_implementors, pending_implementors, rendered, pc,
                   cur, loaded, runs>>

\* Line 4: the test of window.register_implementors.
L4Check ==
    /\ pc = "l2"
    /\ k = Len(Literal(cur))
    /\ pc' = Branch(register_implementors)
    /\ runs' = [runs EXCEPT ![Len(runs)].built = implementors,
                            ![Len(runs)].path =
                                IF Branch(register_implementors) = "l5"
                                THEN "direct" ELSE "deferred"]
    /\ UNCHANGED <<register_implementors, pending_implementors, rendered, cur,
                   k, implementors, loaded>>

\* Line 5: `window.register_implementors(implementors);`
L5Call ==
    /\ pc = "l5"
    /\ rendered' = RegisterImplementors(rendered, CallArguments(implementors))
    /\ runs' = Cur("args", Append(runs[Len(runs)].args, CallArguments(implementors)))
    /\ pc' = AfterCall
    /\ UNCHANGED <<register_implementors, pending_implementors, cur, k,
                   implementors, loaded>>

\* Line 7: `window.pending_implementors = implementors;`
L7Stash ==
    /\ pc = "l7"
    /\ pending_implementors' = SlotWrite(pending_implementors, implementors)
    /\ runs' = Cur("writes", Append(runs[Len(runs)].writes, implementors))
    /\ pc' = "l9"
    /\ UNCHANGED <<register_implementors, rendered, cur, k, implementors, loaded>>

\* Line 9: the function returns; its local goes out of scope.
L9Return ==
    /\ pc = "l9"
    /\ pc' = "idle"
    /\ cur' = "none"
    /\ k' = 0
    /\ implementors' = EmptyMapping
    /\ runs' = Cur("completion", "normal")
    /\ UNCHANGED <<register_implementors, pending_implementors, rendered, loaded>>

\* The script gives up control between the test of line 4 and the hand-off
\* of line 5 or 7 (as it would with an asynchronous hand-off).
ScriptRunning_YieldAfterCheck == pc \notin {"idle", "l5", "l7"}

\* Lines 1 to 9 are one synchronous function body: from its invocation to
\* its return the script holds control, and no other script or handler runs.
ScriptRunning == pc # "idle"

----------------------------------------------------------------------------
(* The page controller *)

\* The controller module initializes: it defines the Controller Reference
\* and, if the PendingSlot holds a mapping, processes it as a direct call
\* would and clears the slot.  It runs between scripts, never inside one.
ControllerInit ==
    /\ ~ScriptRunning
    /\ register_implementors = "undefined"
    /\ register_implementors' = "function"
    /\ rendered' = IF pending_implementors # <<>>
                   THEN RegisterImplementors(rendered, pending_implementors)
                   ELSE rendered
    /\ pending_implementors' = <<>>
    /\ UNCHANGED <<pc, cur, k, implementors, loaded, runs>>

----------------------------------------------------------------------------
(* The page *)

Init ==
    /\ register_implementors = "undefined"
    /\ pending_implementors = <<>>
    /\ rendered = <<>>
    /\ pc = "idle"
    /\ cur = "none"
    /\ k = 0
    /\ implementors = EmptyMapping
    /\ loaded = {}
    /\ runs = <<>>

Next ==
    \/ \E f \in Fragments : Start(f)
    \/ L1
    \/ L2Assign
    \/ L4Check
    \/ L5Call
    \/ L7Stash
    \/ L9Return
    \/ ControllerInit

Spec == Init /\ [][Next]_vars

----------------------------------------------------------------------------
(* Vocabulary of the properties *)

\* The runs that have returned.
DoneRuns == {i \in 1..Len(runs) : runs[i].completion = "normal"}

\* The returned runs that took the direct path, and the deferred path.
DirectRuns == {i \in DoneRuns : runs[i].path = "direct"}

DeferredRuns == {i \in DoneRuns : runs[i].path = "deferred"}

\* The returned runs that started with the Controller Reference present.
RunsWithController == {i \in DoneRuns : runs[i].ctrlAtStart}

RunsWithoutController == {i \in DoneRuns : ~runs[i].ctrlAtStart}

Max(S) == CHOOSE n \in S : \A m \in S : m <= n

\* How many times the controller processed mapping m.
Count(s, m) == Cardinality({p \in 1..Len(s) : s[p] = m})

\* The mapping a fragment's literal denotes: its assignments applied in
\* order to the empty mapping.
RECURSIVE Fold(_, _)
Fold(lit, n) ==
    IF n = 0 THEN EmptyMapping
    ELSE Assign(Fold(lit, n - 1), lit[n][1], lit[n][2])

Payload(f) == Fold(Literal(f), Len(Literal(f)))

\* Some statement of the running script can execute.
ScriptStep == L1 \/ L2Assign \/ L4Check \/ L5Call \/ L7Stash \/ L9Return

----------------------------------------------------------------------------
(* Properties *)

\* C1: every fragment run that has returned performed exactly one of
\* {invoke the controller, write the PendingSlot}: never both, never neither.
C1_ExactlyOnePath ==
    \A i \in DoneRuns : Len(runs[i].args) + Len(runs[i].writes) = 1

\* C1 witness: a run that called the controller and a run that wrote a slot
\* that already held a mapping have both returned.
C1_Witness ==
    /\ \E i \in DoneRuns : Len(runs[i].args) = 1 /\ runs[i].ctrlAtStart
    /\ \E i \in DoneRuns : Len(runs[i].writes) = 1 /\ runs[i].slotAtStart # <<>>

\* C2: a run that started with the Controller Reference present invoked the
\* controller exactly once, with the mapping it constructed as sole argument,
\* and at its return the controller's last-received mapping is that mapping.
C2_DirectCall ==
    \A i \in RunsWithController :
        /\ runs[i].built = Payload(runs[i].frag)
        /\ runs[i].args = << <<runs[i].built>> >>
        /\ (i = Len(runs) =>
                /\ rendered # <<>>
                /\ rendered[Len(rendered)] = runs[i].built)

\* C2 witness: a run of a non-empty mapping with the controller present has
\* returned.
C2_Witness ==
    \E i \in RunsWithController :
        /\ runs[i].built # EmptyMapping
        /\ rendered[Len(rendered)] = runs[i].built

\* C3: a run that started with no Controller Reference did not invoke the
\* controller, and at its return the PendingSlot holds exactly the mapping
\* it constructed.
C3_Deferred ==
    \A i \in RunsWithoutController :
        /\ runs[i].built = Payload(runs[i].frag)
        /\ runs[i].args = <<>>
        /\ runs[i].writes = <<runs[i].built>>
        /\ (i = Len(runs) /\ register_implementors = "undefined" =>
                pending_implementors = <<runs[i].built>>)

\* C3 witness: a second deferred run has returned, the controller is still
\* absent and nothing was rendered.
C3_Witness ==
    /\ register_implementors = "undefined"
    /\ pc = "idle"
    /\ Cardinality(RunsWithoutController) >= 2
    /\ rendered = <<>>

\* C4: once the controller has initialized with a mapping M in the
\* PendingSlot (the one the last deferred run stashed), the controller has
\* processed M exactly once and the PendingSlot is absent.
C4_LateInit ==
    (register_implementors = "function" /\ DeferredRuns # {}) =>
        /\ Count(rendered, runs[Max(DeferredRuns)].built) = 1
        /\ pending_implementors = <<>>

\* C4 witness: the controller initialized after a deferred run and a later
\* direct run has returned too.
C4_Witness ==
    /\ register_implementors = "function"
    /\ DeferredRuns # {}
    /\ DirectRuns # {}
    /\ pc = "idle"

\* C5 as stated: once the controller has initialized, the mapping of every
\* returned fragment run has been processed by the controller.
C5_NoDataLoss ==
    (register_implementors = "function" /\ pc = "idle") =>
        \A i \in DoneRuns : Count(rendered, runs[i].built) >= 1

\* C5 amended: once the controller has initialized, the mapping of every
\* run that took the direct path and the mapping of the most recent deferred
\* run have been processed; mappings of earlier deferred runs may be lost.
C5_NoDataLossAmended ==
    register_implementors = "function" =>
        \A i \in DoneRuns :
            (i \in DirectRuns \/ i = Max(DeferredRuns \cup {0})) =>
                Count(rendered, runs[i].built) >= 1

\* C5 witness: fragments ran before and after the controller initialized.
C5_Witness ==
    /\ register_implementors = "function"
    /\ Cardinality(DeferredRuns) >= 2
    /\ DirectRuns # {}

\* C6: with one fragment run and the controller initialized, the controller
\* has processed exactly the fragment's mapping, once, whichever of the two
\* ran first.
C6_OrderIndependence ==
    (Len(runs) = 1 /\ DoneRuns = {1} /\ register_implementors = "function") =>
        rendered = <<Payload(runs[1].frag)>>

\* C6 witness: the single fragment ran before the controller initialized.
C6_Witness ==
    /\ Len(runs) = 1
    /\ DeferredRuns = {1}
    /\ register_implementors = "function"
    /\ Payload(runs[1].frag) # EmptyMapping

\* The shape of the FromIterator mapping.
ThisShape(m) ==
    /\ DOMAIN m = {"libc", "ndarray", "sprs"}
    /\ m["libc"] = <<>>
    /\ Len(m["ndarray"]) = 1
    /\ Len(m["sprs"]) = 1

\* C7: every value the FromIterator fragment passes to the controller or
\* writes to the PendingSlot has exactly the keys libc, ndarray and sprs,
\* libc with zero entries and ndarray and sprs with one entry each.
C7_PayloadShape ==
    \A i \in 1..Len(runs) :
        runs[i].frag = "FromIterator" =>
            /\ \A j \in 1..Len(runs[i].args) : ThisShape(runs[i].args[j][1])
            /\ \A j \in 1..Len(runs[i].writes) : ThisShape(runs[i].writes[j])
            /\ (runs[i].path # "none" => ThisShape(runs[i].built))

\* C7 witness: the FromIterator mapping sits in the PendingSlot with its
\* three keys.
C7_Witness ==
    /\ pending_implementors # <<>>
    /\ "libc" \in DOMAIN pending_implementors[1]
    /\ \E i \in DoneRuns : /\ runs[i].frag = "FromIterator"
                           /\ runs[i].writes = pending_implementors

\* C8: for two runs that both started with the controller present, the
\* controller processed each mapping once, in the order the fragments ran,
\* and neither run wrote the PendingSlot.
C8_IndependentCalls ==
    \A i, j \in RunsWithController :
        i < j =>
            /\ runs[i].writes = <<>> /\ runs[j].writes = <<>>
            /\ pending_implementors = <<>>
            /\ \E p, q \in 1..Len(rendered) :
                    /\ p < q
                    /\ rendered[p] = runs[i].built
                    /\ rendered[q] = runs[j].built
            /\ Count(rendered, runs[i].built) = 1
            /\ Count(rendered, runs[j].built) = 1

\* C8 witness: two runs with different mappings returned after the
\* controller initialized.
C8_Witness ==
    \E i, j \in RunsWithController :
        i < j /\ runs[i].built # runs[j].built /\ Len(rendered) >= 2

\* C9: the PendingSlot holds at most one mapping; while no controller is
\* present it holds the mapping of the most recent returned run; and the
\* controller on initialization receives the last stashed mapping only.
C9_Overwrite ==
    /\ Len(pending_implementors) <= 1
    /\ (register_implementors = "undefined" /\ pc = "idle" /\ DoneRuns # {} =>
            pending_implementors = <<runs[Len(runs)].built>>)
    /\ (register_implementors = "function" /\ DeferredRuns # {} =>
            /\ rendered[1] = runs[Max(DeferredRuns)].built
            /\ \A i \in DeferredRuns \ {Max(DeferredRuns)} :
                    Count(rendered, runs[i].built) = 0)

\* C9 witness: the controller initialized after two deferred runs.
C9_Witness ==
    /\ register_implementors = "function"
    /\ Cardinality(DeferredRuns) >= 2
    /\ Len(rendered) = 1

----------------------------------------------------------------------------
(* The fragment on any page *)

\* The two globals are the fragment's inputs: a page on which earlier
\* scripts left the Controller Reference present or absent and the
\* PendingSlot absent or holding a mapping.
InitAnyPage ==
    /\ register_implementors \in {"undefined", "function"}
    /\ pending_implementors \in {<<>>} \cup {<<Payload(f)>> : f \in Fragments}
    /\ rendered = <<>>
    /\ pc = "idle"
    /\ cur = "none"
    /\ k = 0
    /\ implementors = EmptyMapping
    /\ loaded = {}
    /\ runs = <<>>

SpecAnyPage == InitAnyPage /\ [][Next]_vars

\* C11: no step of a fragment script changes the Controller Reference; the
\* branch it takes depends on the Controller Reference alone and the value
\* it writes on the local mapping alone, never on the PendingSlot; a run on
\* the direct path leaves the PendingSlot as it was; and a run on the
\* deferred path finds and leaves the Controller Reference absent.
C11_AccessDiscipline ==
    [][ (pc # "idle" \/ pc' # "idle") =>
          /\ register_implementors' = register_implementors
          /\ (pc = "l2" /\ pc' # "l2" =>
                pc' = IF register_implementors = "function" THEN "l5" ELSE "l7")
          /\ (pending_implementors' # pending_implementors =>
                pc = "l7" /\ runs'[Len(runs')].path = "deferred")
          /\ (pc = "l7" => pending_implementors' = <<implementors>>)
          /\ (runs'[Len(runs')].path = "direct" =>
                pending_implementors' = pending_implementors)
          /\ (runs'[Len(runs')].path = "deferred" =>
                /\ register_implementors = "undefined"
                /\ register_implementors' = "undefined")
      ]_vars

\* C11 witness: a run took the direct path on a page whose PendingSlot held
\* a mapping, and the slot still holds that mapping after the run returned.
C11_Witness ==
    /\ pc = "idle"
    /\ runs # <<>>
    /\ runs[Len(runs)].path = "direct"
    /\ runs[Len(runs)].completion = "normal"
    /\ runs[Len(runs)].slotAtStart # <<>>
    /\ pending_implementors = runs[Len(runs)].slotAtStart
    /\ register_implementors = "function"

\* C12: the Controller Reference is absent at page load; once present it is
\* present after every step; and every fragment run that starts with it
\* present takes the direct path.
C12_Monotonic ==
    /\ register_implementors = "undefined"
    /\ [][register_implementors = "function" =>
            register_implementors' = "function"]_vars
    /\ [](\A i \in 1..Len(runs) :
            (runs[i].ctrlAtStart /\ runs[i].path # "none") =>
                runs[i].path = "direct")

\* C12 witness: every fragment of the page has run, the first of them before
\* the controller initialized and the last after it, and the Controller
\* Reference is still present.
C12_Witness ==
    /\ loaded = Fragments
    /\ pc = "idle"
    /\ register_implementors = "function"
    /\ ~runs[1].ctrlAtStart
    /\ runs[Len(runs)].ctrlAtStart
    /\ runs[Len(runs)].path = "direct"

\* C13: the Controller Reference does not change while a fragment script
\* runs, so the path taken at line 4 is the one the reference calls for when
\* the hand-off executes; and once the controller has initialized the
\* PendingSlot is absent in every state.
C13_UninterruptedHandOff ==
    /\ (pc # "idle" =>
            Truthy(register_implementors) = runs[Len(runs)].ctrlAtStart)
    /\ (pc \in {"l5", "l7", "l9"} =>
            (Truthy(register_implementors) <=> runs[Len(runs)].path = "direct"))
    /\ (register_implementors = "function" => pending_implementors = <<>>)

\* C13 witness: the controller drained a stashed mapping and a fragment that
\* ran afterwards is about to return, with the PendingSlot still absent.
C13_Witness ==
    /\ register_implementors = "function"
    /\ DeferredRuns # {}
    /\ Len(rendered) >= 2
    /\ pc = "l9"
    /\ pending_implementors = <<>>

====
